---- MODULE Spec2Model ----
(***************************************************************************)
(* Model of the admin menu items (one/libraries/admin/menu/items.py) and   *)
(* of the UOM seed command                                                 *)
(* (one/masterdata/uom/management/commands/initial_uom.py).                *)
(*                                                                         *)
(* Python objects live in a heap: `items` holds the MenuItem instances     *)
(* (an item's identity is its index) and `lists` holds the Python list     *)
(* objects that the `children` attributes refer to (a list's identity is   *)
(* its index), so that two items sharing one list object is expressible.   *)
(* The UOM table is a sequence of rows; a row's primary key is its index.  *)
(***************************************************************************)
EXTENDS Integers, Sequences, FiniteSets, TLC

VARIABLES
    items,      \* heap of MenuItem / AppList / ModelList instances
    lists,      \* heap of Python list objects (the children lists)
    perms,      \* the principal's permission dict for every registered model
    last_items, \* what _visible_models returned to the last init_with_context
    prior_len,  \* len(self.children) when the last init_with_context started
    hist,       \* the operations applied to the item under test, in order
    ret,        \* the value returned by the last query call (is_selected, is_empty)
    uom_data,   \* Command.uom_data[business_type]
    table,      \* the UOM table
    init_table, \* the UOM table before any run
    mode,       \* "seq": the second run starts after the first ended; "conc": runs interleave
    pc,         \* per run: the database operation that run executes next
    idx,        \* per run: position of the loop variable `uom` in uom_data
    uom_obj,    \* per run: the model instance held in memory
    base_uom,   \* per run: the base unit fetched at line 71
    exc,        \* per run: the exception that ended the run
    stdout,     \* per run: the messages written to standard output
    snap,       \* per run: the table when that run completed
    raced,      \* whether some create lost the race for a code to another run
    given,      \* the items constructed with a non-empty children argument
    parent_kind,   \* whether the parent get_fieldsets builds its result or returns a stored one
    parent_fields, \* the fields of the parent's first fieldset before any call
    declared,   \* the fieldsets structure the parent admin keeps
    returned,   \* the fieldsets the last get_fieldsets call returned
    ncalls      \* number of get_fieldsets calls made

menuvars == <<items, lists, perms, last_items, prior_len, hist, ret>>
seedvars == <<uom_data, table, init_table, mode, pc, idx, uom_obj, base_uom, exc, stdout, snap, raced>>
adminvars == <<parent_kind, parent_fields, declared, returned, ncalls>>
extravars == <<given, parent_kind, parent_fields, declared, returned, ncalls>>
vars == <<items, lists, perms, last_items, prior_len, hist, ret,
          uom_data, table, init_table, mode, pc, idx, uom_obj, base_uom, exc, stdout, snap, raced,
          given, parent_kind, parent_fields, declared, returned, ncalls>>

(***************************************************************************)
(* Bounds                                                                  *)
(***************************************************************************)
\* number of mutating operations applied to the AppList / ModelList under test
MaxOps == 3
\* number of MenuItem instances in a hand-built tree
MaxTreeItems == 3

NoRet == [op |-> "none"]
Root == 1
None == "None"

\* no PayrollAdmin is in use
AdminIdle ==
    /\ parent_kind = "off" /\ parent_fields = <<>> /\ declared = <<>>
    /\ returned = None /\ ncalls = 0

ExtraIdle == given = {} /\ AdminIdle

(***************************************************************************)
(* Generic helpers                                                         *)
(***************************************************************************)
Range(s) == {s[i] : i \in DOMAIN s}

\* all orderings of a finite set, as sequences without repetition
Orderings(S) ==
    {s \in [1..Cardinality(S) -> S] : \A i, j \in 1..Cardinality(S) : s[i] = s[j] => i = j}

\* Python compares str by code point: upper-case letters sort before lower-case ones.
CodepointOrder ==
    <<"Categories", "Payrolls", "Units", "payroll", "uom">>

StrRank(s) == CHOOSE i \in DOMAIN CodepointOrder : CodepointOrder[i] = s

RECURSIVE InsertByKey(_, _, _)
\* insert x after every element whose key is <= key[x]: a stable insertion
InsertByKey(s, x, key) ==
    IF s = <<>> THEN <<x>>
    ELSE IF key[x] < key[s[1]] THEN <<x>> \o s
    ELSE <<s[1]>> \o InsertByKey(Tail(s), x, key)

RECURSIVE StableSort(_, _)
StableSort(s, key) ==
    IF s = <<>> THEN <<>>
    ELSE InsertByKey(StableSort(SubSeq(s, 1, Len(s) - 1), key), s[Len(s)], key)

\* list.sort(key=...) and sorted(...): ascending by key, stable; key maps
\* every element to the rank of its sort key
sorted(s, key) == StableSort(s, key)

(***************************************************************************)
(* The external registry: registered models, permissions, admin urls       *)
(***************************************************************************)
\* registered models: _meta.app_label, __module__ + __name__,
\* _meta.verbose_name_plural, and the urls the admin site serves them under
Models ==
    { [app_label |-> "uom", dotted |-> <<"one", "masterdata", "uom", "models", "UOM">>,
       verbose_name_plural |-> "Units",
       app_list_url |-> "/admin/uom/", changelist_url |-> "/admin/uom/uom/"],
      [app_label |-> "uom", dotted |-> <<"one", "masterdata", "uom", "models", "UOMCategory">>,
       verbose_name_plural |-> "Categories",
       app_list_url |-> "/admin/uom/", changelist_url |-> "/admin/uom/uomcategory/"],
      [app_label |-> "payroll", dotted |-> <<"one", "masterdata", "payroll", "models", "Payroll">>,
       verbose_name_plural |-> "Payrolls",
       app_list_url |-> "/admin/payroll/", changelist_url |-> "/admin/payroll/payroll/"] }

\* django_apps.get_app_config(app_label).verbose_name
AppVerboseName(app_label) ==
    IF app_label = "uom" THEN "Units of measure" ELSE "Payroll"

\* a permission dict: "change" is always present, "view" may be missing
PermChoices ==
    { [add |-> TRUE, change |-> FALSE],
      [add |-> FALSE, change |-> TRUE],
      [add |-> FALSE, change |-> FALSE, view |-> TRUE] }

\* the inclusion / exclusion pattern lists an AppList or ModelList is built with
IncludeChoices ==
    { <<>>,
      <<(<<"one", "masterdata", "uom", "*">>)>>,
      <<(<<"one", "masterdata", "payroll", "models", "Payroll">>),
        (<<"one", "masterdata", "uom", "models", "UOM">>)>> }

ExcludeChoices ==
    { <<>>,
      <<(<<"one", "masterdata", "payroll", "*">>)>>,
      <<(<<"one", "masterdata", "uom", "models", "UOMCategory">>)>> }

\* the admin url builder: the index page of the model's application, and
\* the model's change-list page
_get_admin_app_list_url(model) == model.app_list_url
_get_admin_change_url(model) == model.changelist_url

\* per-application title / icon overrides
MENU_EXTRA_DETAILS ==
    [app \in {"payroll"} |-> [title |-> "Salary", icon |-> "fa-money"]]

\* glob match of a dotted name against a pattern whose last segment may be "*"
fnmatch(dotted, pattern) ==
    IF pattern[Len(pattern)] = "*"
    THEN /\ Len(dotted) >= Len(pattern) - 1
         /\ \A i \in 1..(Len(pattern) - 1) : dotted[i] = pattern[i]
    ELSE dotted = pattern

\* the pattern filter of _visible_models
PatternVisible(self, model) ==
    /\ \/ self.models = <<>>
       \/ \E i \in DOMAIN self.models : fnmatch(model.dotted, self.models[i])
    /\ ~ \E i \in DOMAIN self.exclude : fnmatch(model.dotted, self.exclude[i])

\* _visible_models(request): the (model, perms) pairs passing the pattern
\* filter, in any order the registry may report them
_visible_models(self, p) ==
    LET vis == {m \in Models : PatternVisible(self, m)}
    IN {[i \in 1..Cardinality(vis) |-> <<o[i], p[o[i]]>>] : o \in Orderings(vis)}

(***************************************************************************)
(* MenuItem, AppList, ModelList                                            *)
(***************************************************************************)
\* the children list object of an item, and the items it holds
ChildrenOf(H, i) == H.lists[H.items[i].children]

\* MenuItem.__init__(title, url, **kwargs) with no children argument:
\* `self.children = self.children or []` binds a new list object
MenuItem(H, title, url, fas_icon) ==
    [items |-> Append(H.items, [cls |-> "MenuItem", title |-> title, url |-> url,
                                fas_icon |-> fas_icon, children |-> Len(H.lists) + 1]),
     lists |-> Append(H.lists, <<>>)]

\* AppList.__init__ / ModelList.__init__: a MenuItem that also keeps its patterns
ListItem(cls, models, exclude) ==
    [items |-> << [cls |-> cls, title |-> "Untitled menu item", url |-> "#", fas_icon |-> "None",
                   children |-> 1, models |-> models, exclude |-> exclude] >>,
     lists |-> << <<>> >>]

\* an append that puts the new child in front: parent.children.insert(0, child)
prepend(H, parent, child) ==
    [H EXCEPT !.lists[H.items[parent].children] = <<child>> \o @]

\* parent.children.append(child)
append(H, parent, child) ==
    [H EXCEPT !.lists[H.items[parent].children] = Append(@, child)]

\* item.children = []
clear(H, i) ==
    [items |-> [H.items EXCEPT ![i].children = Len(H.lists) + 1],
     lists |-> Append(H.lists, <<>>)]

\* a permission test that forgets the view permission
ChangeOnly(p) == p.change

\* perms["change"] or perms.get("view", False)
HasViewOrChange(p) ==
    p.change \/ (IF "view" \in DOMAIN p THEN p.view ELSE FALSE)

RECURSIVE GroupByApp(_, _)
\* the first loop of AppList.init_with_context: the dict `apps`, as its keys
\* in insertion order and the value of each key
GroupByApp(its, apps) ==
    IF its = <<>> THEN apps
    ELSE LET model == its[1][1]
             p == its[1][2]
             app_label == model.app_label
             apps1 == IF app_label \notin DOMAIN apps.d
                      THEN [keys |-> Append(apps.keys, app_label),
                            d |-> apps.d @@ (app_label :>
                               [app_label |-> app_label,
                                title |-> AppVerboseName(app_label),
                                url |-> _get_admin_app_list_url(model),
                                models |-> <<>>])]
                      ELSE apps
             model_dict == [app_label |-> app_label,
                            title |-> model.verbose_name_plural,
                            url |-> _get_admin_change_url(model)]
         IN IF ~ HasViewOrChange(p) THEN GroupByApp(Tail(its), apps)
            ELSE GroupByApp(Tail(its),
                            [apps1 EXCEPT !.d[app_label].models = Append(@, model_dict)])

RECURSIVE AppendModels(_, _, _)
\* for model_dict in apps[app]["models"]: item.children.append(MenuItem(**model_dict))
AppendModels(H, item, model_dicts) ==
    IF model_dicts = <<>> THEN H
    ELSE LET H1 == MenuItem(H, model_dicts[1].title, model_dicts[1].url, "None")
         IN AppendModels(append(H1, item, Len(H1.items)), item, Tail(model_dicts))

\* an AppList that appends the models of an application in dict order
UnsortedModels(model_dicts) == model_dicts

\* apps[app]["models"].sort(key=lambda x: x["title"])
SortModels(model_dicts) ==
    sorted(model_dicts, [d \in Range(model_dicts) |-> StrRank(d.title)])

\* an AppList that emits the applications in dict (insertion) order
UnsortedApps(apps) == apps.keys

\* sorted(apps.keys())
SortApps(apps) ==
    sorted(apps.keys, [a \in DOMAIN apps.d |-> StrRank(a)])

RECURSIVE AppendApps(_, _, _, _)
\* the second loop of AppList.init_with_context
AppendApps(H, self, keys, apps) ==
    IF keys = <<>> THEN H
    ELSE LET app == keys[1]
             app_dict == apps.d[app]
             title == IF app \in DOMAIN MENU_EXTRA_DETAILS
                         /\ "title" \in DOMAIN MENU_EXTRA_DETAILS[app]
                      THEN MENU_EXTRA_DETAILS[app].title ELSE app_dict.title
             icon == IF app \in DOMAIN MENU_EXTRA_DETAILS
                        /\ "icon" \in DOMAIN MENU_EXTRA_DETAILS[app]
                     THEN MENU_EXTRA_DETAILS[app].icon ELSE "fa-cube"
             H1 == MenuItem(H, title, app_dict.url, icon)
             item == Len(H1.items)
             H2 == AppendModels(H1, item, SortModels(app_dict.models))
         IN AppendApps(append(H2, self, item), self, Tail(keys), apps)

\* AppList.init_with_context on the (model, perms) pairs _visible_models returned
AppList_build(H, self, its) ==
    LET apps == GroupByApp(its, [keys |-> <<>>, d |-> << >>])
    IN AppendApps(H, self, SortApps(apps), apps)

RECURSIVE ModelList_build(_, _, _)
\* ModelList.init_with_context on the (model, perms) pairs _visible_models returned
ModelList_build(H, self, its) ==
    IF its = <<>> THEN H
    ELSE LET model == its[1][1]
             p == its[1][2]
             H1 == MenuItem(H, model.verbose_name_plural, _get_admin_change_url(model), "None")
         IN IF ~ HasViewOrChange(p) THEN ModelList_build(H, self, Tail(its))
            ELSE ModelList_build(append(H1, self, Len(H1.items)), self, Tail(its))

\* MenuItem.is_empty
MenuItem_is_empty(H, i) == FALSE

\* an is_empty that was not overridden
InheritedIsEmpty(H, i) == FALSE

\* AppList.is_empty and ModelList.is_empty
List_is_empty(H, i) == Len(ChildrenOf(H, i)) = 0

\* is_empty() as dispatched on the class of the item
is_empty(H, i) ==
    IF H.items[i].cls \in {"AppList", "ModelList"} THEN List_is_empty(H, i)
    ELSE MenuItem_is_empty(H, i)

\* an is_selected that looks at the direct children's urls only
ShallowSelected(H, i, current_url) ==
    \/ H.items[i].url = current_url
    \/ \E k \in DOMAIN ChildrenOf(H, i) : H.items[ChildrenOf(H, i)[k]].url = current_url

RECURSIVE is_selected(_, _, _)
\* MenuItem.is_selected, current_url = request.get_full_path()
is_selected(H, i, current_url) ==
    \/ H.items[i].url = current_url
    \/ Len(SelectSeq(ChildrenOf(H, i), LAMBDA c : is_selected(H, c, current_url))) > 0

Heap == [items |-> items, lists |-> lists]

\* the items reachable from the items of S through children lists, S included
RECURSIVE Reach(_, _)
Reach(H, S) ==
    LET N == S \cup UNION {Range(ChildrenOf(H, i)) : i \in S}
    IN IF N = S THEN S ELSE Reach(H, N)

HasParent(H, c) == \E q \in DOMAIN H.items : c \in Range(ChildrenOf(H, q))

\* urls given to hand-built items ("#" is the class default) and request paths
ItemUrls == {"#", "/admin/uom/"}
Paths == {"/admin/uom/", "/admin/payroll/"}

SeedIdle ==
    /\ uom_data = <<>> /\ table = <<>> /\ init_table = <<>> /\ mode = "off"
    /\ pc = <<>> /\ idx = <<>> /\ uom_obj = <<>> /\ base_uom = <<>> /\ exc = <<>>
    /\ stdout = <<>> /\ snap = <<>> /\ raced = FALSE

(***************************************************************************)
(* Building a menu from an AppList or a ModelList                          *)
(***************************************************************************)
InitMenu ==
    /\ \E cls \in {"AppList", "ModelList"}, models \in IncludeChoices, exclude \in ExcludeChoices :
          LET H == ListItem(cls, models, exclude)
          IN items = H.items /\ lists = H.lists
    /\ perms \in [Models -> PermChoices]
    /\ last_items = <<>> /\ prior_len = 0 /\ hist = <<>> /\ ret = NoRet
    /\ SeedIdle /\ ExtraIdle

AppList_init_with_context ==
    /\ items[Root].cls = "AppList"
    /\ Len(hist) < MaxOps
    /\ \E its \in _visible_models(items[Root], perms) :
          LET H == AppList_build(Heap, Root, its)
          IN /\ items' = H.items /\ lists' = H.lists
             /\ last_items' = its
    /\ prior_len' = Len(ChildrenOf(Heap, Root))
    /\ hist' = Append(hist, "init")
    /\ ret' = NoRet
    /\ UNCHANGED <<perms, seedvars, extravars>>

ModelList_init_with_context ==
    /\ items[Root].cls = "ModelList"
    /\ Len(hist) < MaxOps
    /\ \E its \in _visible_models(items[Root], perms) :
          LET H == ModelList_build(Heap, Root, its)
          IN /\ items' = H.items /\ lists' = H.lists
             /\ last_items' = its
    /\ prior_len' = Len(ChildrenOf(Heap, Root))
    /\ hist' = Append(hist, "init")
    /\ ret' = NoRet
    /\ UNCHANGED <<perms, seedvars, extravars>>

\* item.children.append(MenuItem(title='foo'))
children_append ==
    /\ Len(hist) < MaxOps
    /\ LET H1 == MenuItem(Heap, "foo", "#", "None")
           H == append(H1, Root, Len(H1.items))
       IN items' = H.items /\ lists' = H.lists
    /\ hist' = Append(hist, "append")
    /\ ret' = NoRet
    /\ UNCHANGED <<perms, last_items, prior_len, seedvars, extravars>>

\* item.children = []
children_assign ==
    /\ Len(hist) < MaxOps
    /\ LET H == clear(Heap, Root)
       IN items' = H.items /\ lists' = H.lists
    /\ hist' = Append(hist, "clear")
    /\ ret' = NoRet
    /\ UNCHANGED <<perms, last_items, prior_len, seedvars, extravars>>

\* item.is_empty()
Call_is_empty ==
    /\ ret = NoRet
    /\ ret' = [op |-> "is_empty", item |-> Root, val |-> is_empty(Heap, Root)]
    /\ UNCHANGED <<items, lists, perms, last_items, prior_len, hist, seedvars, extravars>>

NextMenu ==
    \/ AppList_init_with_context
    \/ ModelList_init_with_context
    \/ children_append
    \/ children_assign
    \/ Call_is_empty

SpecMenu == InitMenu /\ [][NextMenu]_vars

(***************************************************************************)
(* Hand-built MenuItem trees and is_selected                               *)
(***************************************************************************)
InitTree ==
    /\ items = <<>> /\ lists = <<>>
    /\ perms = <<>> /\ last_items = <<>> /\ prior_len = 0 /\ hist = <<>> /\ ret = NoRet
    /\ SeedIdle /\ ExtraIdle

\* MenuItem(url=u)
NewMenuItem ==
    /\ Len(items) < MaxTreeItems
    /\ \E u \in ItemUrls :
          LET H == MenuItem(Heap, "Untitled menu item", u, "None")
          IN items' = H.items /\ lists' = H.lists
    /\ ret' = NoRet
    /\ UNCHANGED <<perms, last_items, prior_len, hist, seedvars, extravars>>

\* parent.children.append(child), keeping the items a tree
TreeAppend ==
    /\ \E parent, child \in DOMAIN items :
          /\ ~ HasParent(Heap, child)
          /\ parent \notin Reach(Heap, {child})
          /\ LET H == append(Heap, parent, child)
             IN items' = H.items /\ lists' = H.lists
    /\ ret' = NoRet
    /\ UNCHANGED <<perms, last_items, prior_len, hist, seedvars, extravars>>

\* item.is_selected(request)
Call_is_selected ==
    /\ \E i \in DOMAIN items, path \in Paths :
          ret' = [op |-> "is_selected", item |-> i, path |-> path,
                  val |-> is_selected(Heap, i, path)]
    /\ UNCHANGED <<items, lists, perms, last_items, prior_len, hist, seedvars, extravars>>

NextTree == NewMenuItem \/ TreeAppend \/ Call_is_selected

SpecTree == InitTree /\ [][NextTree]_vars

(***************************************************************************)
(* Properties of the menu items                                            *)
(***************************************************************************)
LastOp == IF hist = <<>> THEN "none" ELSE hist[Len(hist)]

\* the principal holds the view or the change permission on model m
ViewOrChangeGranted(m) ==
    \E k \in {"view", "change"} : k \in DOMAIN perms[m] /\ perms[m][k]

\* model m has an entry under the child item of its application
AppearsAsGrandchild(m) ==
    \E a \in Range(ChildrenOf(Heap, Root)) :
        /\ items[a].url = m.app_list_url
        /\ \E g \in Range(ChildrenOf(Heap, a)) : items[g].url = m.changelist_url

FreshAppListInit ==
    items # <<>> /\ items[Root].cls = "AppList" /\ LastOp = "init" /\ prior_len = 0

AppLabelOfUrl(u) == CHOOSE a \in {m.app_label : m \in Models} :
                        \E m \in Models : m.app_label = a /\ m.app_list_url = u

\* the children the last init_with_context appended to the item under test
AppendedByInit == SubSeq(ChildrenOf(Heap, Root), prior_len + 1, Len(ChildrenOf(Heap, Root)))

\* C2: after AppList.init_with_context the application items it appended are
\* in ascending order of app_label, one per application, and the model items
\* of every application are in ascending order of plural display name,
\* whatever order the visibility query returned the models in.
C2_AppsAndModelsSorted ==
    (items # <<>> /\ items[Root].cls = "AppList" /\ LastOp = "init") =>
        LET apps == AppendedByInit
        IN /\ \A i, j \in DOMAIN apps :
                i < j => StrRank(AppLabelOfUrl(items[apps[i]].url))
                           < StrRank(AppLabelOfUrl(items[apps[j]].url))
           /\ \A k \in DOMAIN apps :
                LET ms == ChildrenOf(Heap, apps[k])
                IN \A i, j \in DOMAIN ms :
                      i < j => StrRank(items[ms[i]].title) <= StrRank(items[ms[j]].title)

\* the query returned "uom" models before the "payroll" model and Units
\* before Categories; the menu has both applications and both uom models
C2_Witness ==
    /\ items # <<>> /\ items[Root].cls = "AppList" /\ LastOp = "init"
    /\ Len(AppendedByInit) = 2
    /\ Len(ChildrenOf(Heap, AppendedByInit[2])) = 2
    /\ Len(last_items) = 3
    /\ last_items[1][1].verbose_name_plural = "Units"
    /\ last_items[2][1].verbose_name_plural = "Categories"
    /\ last_items[3][1].app_label = "payroll"

\* C7: for an AppList or ModelList, after any sequence of appends, child-list
\* replacements and init_with_context calls, is_empty() returns true iff the
\* children list is empty at that moment.
C7_IsEmptyIffNoChildren ==
    /\ ret.op = "is_empty" => (ret.val <=> ChildrenOf(Heap, ret.item) = <<>>)
    /\ items # <<>> /\ items[Root].cls \in {"AppList", "ModelList"}
          => (is_empty(Heap, Root) <=> lists[items[Root].children] = <<>>)

\* is_empty() answers true after a child was appended and the children were
\* then replaced by an empty list
C7_Witness ==
    /\ ret.op = "is_empty" /\ ret.val
    /\ Len(hist) >= 2 /\ hist[Len(hist)] = "clear" /\ hist[Len(hist) - 1] = "append"

\* is_empty() answers false right after one child was appended to an item
\* whose init_with_context found no visible model
C7_WitnessNonEmpty ==
    /\ ret.op = "is_empty" /\ ~ ret.val
    /\ hist = <<"init", "append">> /\ Len(ChildrenOf(Heap, Root)) = 1

\* the models of the last query result the principal may view or change
PermittedOfLast == SelectSeq(last_items, LAMBDA it : ViewOrChangeGranted(it[1]))

C6_SelectedIffSelfOrDescendant ==
    ret.op = "is_selected" =>
        (ret.val <=> \E d \in Reach(Heap, {ret.item}) : items[d].url = ret.path)

\* an item is selected because of a grandchild: neither its own url nor the
\* url of a direct child is the current path
C6_Witness ==
    /\ ret.op = "is_selected" /\ ret.val
    /\ items[ret.item].url # ret.path
    /\ \A c \in Range(ChildrenOf(Heap, ret.item)) : items[c].url # ret.path
    /\ \E c \in Range(ChildrenOf(Heap, ret.item)) :
          \E g \in Range(ChildrenOf(Heap, c)) : items[g].url = ret.path

(***************************************************************************)
(* The UOM seed command                                                    *)
(***************************************************************************)
Runs == {1, 2}

\* entries of Command.uom_data["CREATIVE"]: two base units and one unit
\* derived from each (names transliterated)
UOM_WORD == [code |-> "UOM_WORD", name |-> "Chu"]
UOM_POST_LOWER_300 ==
    [code |-> "UOM_POST_LOWER_300", name |-> "Bai duoi 300 chu", base_uom |-> "UOM_WORD"]
UOM_SECOND == [code |-> "UOM_SECOND", name |-> "Giay"]
UOM_SCRIPT_60 == [code |-> "UOM_SCRIPT_60", name |-> "Kich ban 60s", base_uom |-> "UOM_SECOND"]

CREATIVE == {UOM_WORD, UOM_POST_LOWER_300, UOM_SECOND, UOM_SCRIPT_60}

\* the seed lists examined: the entries in every declaration order, and the
\* lists that declare base_uom "UOM_SECOND" without seeding UOM_SECOND
SeedLists == Orderings(CREATIVE) \cup Orderings(CREATIVE \ {UOM_SECOND})

\* a row of the UOM table; base_uom is the primary key of another row, 0 for NULL
Row(code, name, base) == [code |-> code, name |-> name, base_uom |-> base]

\* tables the command may find: empty, already seeded in part, holding a
\* seed code under another name, holding base units set by someone else
InitTables ==
    { <<>>,
      <<Row("UOM_WORD", "Chu", 0)>>,
      <<Row("UOM_WORD", "Word", 0)>>,
      <<Row("UOM_SECOND", "Giay", 0)>>,
      <<Row("UOM_SECOND", "Giay", 0), Row("UOM_WORD", "Chu", 1)>>,
      <<Row("UOM_SECOND", "Giay", 0), Row("UOM_SCRIPT_60", "Kich ban 60s", 0),
        Row("UOM_POST_LOWER_300", "Bai duoi 300 chu", 1)>>,
      <<Row("UOM_POST_LOWER_300", "Bai 300", 0)>> }

\* UOM.code carries a unique constraint
CodeIsUnique == TRUE

\* primary keys of the rows matching filter(code=code)
ByCode(tbl, code) == {i \in DOMAIN tbl : tbl[i].code = code}

\* a lookup that never finds a row, as a plain create() would behave
NeverFound(tbl, code, name) == {}

\* primary keys of the rows matching filter(code=code, name=name), the
\* lookup of update_or_create(code=..., name=...)
ByCodeAndName(tbl, code, name) ==
    {i \in DOMAIN tbl : tbl[i].code = code /\ tbl[i].name = name}

\* QuerySet.get() over the matching rows
Get(tbl, ids) ==
    IF Cardinality(ids) = 1
    THEN LET i == CHOOSE i \in ids : TRUE
         IN [status |-> "ok", obj |-> [pk |-> i, code |-> tbl[i].code, name |-> tbl[i].name,
                                         base_uom |-> tbl[i].base_uom]]
    ELSE IF ids = {} THEN [status |-> "DoesNotExist"]
    ELSE [status |-> "MultipleObjectsReturned"]

\* obj.save(): every field of the instance in memory is written to its row
Save(tbl, obj) ==
    [tbl EXCEPT ![obj.pk] = Row(obj.code, obj.name, obj.base_uom)]

\* an entry whose base unit is never looked at
NoBaseDeclared(uom) == None

\* uom.get("base_uom", None)
DeclaredBase(uom) == IF "base_uom" \in DOMAIN uom THEN uom.base_uom ELSE None

\* an assignment that is lost: the instance is saved as it was read
KeepBase(obj, base) == obj

\* uom_obj.base_uom = base_uom
SetBase(obj, base) == [obj EXCEPT !.base_uom = base.pk]

\* the loop of pass one moves on; after the last entry pass two starts
NextInPassOne(i) ==
    IF i < Len(uom_data) THEN [pc |-> "p1_get", idx |-> i + 1]
    ELSE [pc |-> "p2_get", idx |-> 1]

\* the loop of pass two moves on; after the last entry the message is written
NextInPassTwo(i) ==
    IF i < Len(uom_data) THEN [pc |-> "p2_get", idx |-> i + 1]
    ELSE [pc |-> "write", idx |-> i]

\* a handler that swallows the exception and goes on with the next entry
Swallowed(i) == NextInPassTwo(i)

\* an exception raised inside handle() is not caught: the run ends
Uncaught(i) == [pc |-> "aborted", idx |-> i]

Terminal == {"done", "aborted"}

MenuIdle ==
    /\ items = <<>> /\ lists = <<>> /\ perms = <<>> /\ last_items = <<>>
    /\ prior_len = 0 /\ hist = <<>> /\ ret = NoRet

InitRuns ==
    /\ MenuIdle /\ ExtraIdle
    /\ table = init_table
    /\ pc = [r \in Runs |-> "idle"]
    /\ idx = [r \in Runs |-> 0]
    /\ uom_obj = [r \in Runs |-> None]
    /\ base_uom = [r \in Runs |-> None]
    /\ exc = [r \in Runs |-> None]
    /\ stdout = [r \in Runs |-> <<>>]
    /\ snap = [r \in Runs |-> None]
    /\ raced = FALSE

\* handle() is entered: lines 62-65 pick the list of the business type
Start(r) ==
    /\ pc[r] = "idle"
    /\ mode = "seq" => IF r = 1 THEN TRUE ELSE pc[1] \in Terminal
    /\ pc' = [pc EXCEPT ![r] = IF uom_data = <<>> THEN "write" ELSE "p1_get"]
    /\ idx' = [idx EXCEPT ![r] = 1]
    /\ UNCHANGED <<menuvars, extravars, uom_data, table, init_table, mode, uom_obj, base_uom, exc,
                   stdout, snap, raced>>

\* update_or_create, line 67: the lookup by code and name
UpdateOrCreate_get(r) ==
    /\ pc[r] = "p1_get"
    /\ LET uom == uom_data[idx[r]]
           got == Get(table, ByCodeAndName(table, uom.code, uom.name))
       IN IF got.status = "ok"
          THEN /\ uom_obj' = [uom_obj EXCEPT ![r] = got.obj]
               /\ pc' = [pc EXCEPT ![r] = "p1_save"]
               /\ UNCHANGED exc
          ELSE IF got.status = "DoesNotExist"
          THEN /\ pc' = [pc EXCEPT ![r] = "p1_create"]
               /\ UNCHANGED <<uom_obj, exc>>
          ELSE /\ pc' = [pc EXCEPT ![r] = Uncaught(idx[r]).pc]
               /\ exc' = [exc EXCEPT ![r] = got.status]
               /\ UNCHANGED uom_obj
    /\ UNCHANGED <<menuvars, extravars, uom_data, table, init_table, mode, idx, base_uom, stdout, snap, raced>>

\* update_or_create, line 67: no row matched, so one is inserted; the insert
\* fails with IntegrityError when the code is taken
UpdateOrCreate_create(r) ==
    /\ pc[r] = "p1_create"
    /\ LET uom == uom_data[idx[r]]
       IN IF CodeIsUnique /\ ByCode(table, uom.code) # {}
          THEN /\ pc' = [pc EXCEPT ![r] = "p1_retry"]
               /\ raced' = (raced \/ ByCodeAndName(table, uom.code, uom.name) # {})
               /\ UNCHANGED <<table, idx>>
          ELSE /\ table' = Append(table, Row(uom.code, uom.name, 0))
               /\ pc' = [pc EXCEPT ![r] = NextInPassOne(idx[r]).pc]
               /\ idx' = [idx EXCEPT ![r] = NextInPassOne(idx[r]).idx]
               /\ UNCHANGED raced
    /\ UNCHANGED <<menuvars, extravars, uom_data, init_table, mode, uom_obj, base_uom, exc, stdout, snap>>

\* update_or_create, line 67: after IntegrityError the lookup is repeated;
\* if it still finds nothing the IntegrityError is raised
UpdateOrCreate_retry(r) ==
    /\ pc[r] = "p1_retry"
    /\ LET uom == uom_data[idx[r]]
           got == Get(table, ByCodeAndName(table, uom.code, uom.name))
       IN IF got.status = "ok"
          THEN /\ uom_obj' = [uom_obj EXCEPT ![r] = got.obj]
               /\ pc' = [pc EXCEPT ![r] = "p1_save"]
               /\ UNCHANGED exc
          ELSE /\ pc' = [pc EXCEPT ![r] = Uncaught(idx[r]).pc]
               /\ exc' = [exc EXCEPT ![r] = IF got.status = "DoesNotExist"
                                            THEN "IntegrityError" ELSE got.status]
               /\ UNCHANGED uom_obj
    /\ UNCHANGED <<menuvars, extravars, uom_data, table, init_table, mode, idx, base_uom, stdout, snap, raced>>

\* update_or_create, line 67: the row found is saved (no defaults to apply)
UpdateOrCreate_save(r) ==
    /\ pc[r] = "p1_save"
    /\ table' = Save(table, uom_obj[r])
    /\ pc' = [pc EXCEPT ![r] = NextInPassOne(idx[r]).pc]
    /\ idx' = [idx EXCEPT ![r] = NextInPassOne(idx[r]).idx]
    /\ UNCHANGED <<menuvars, extravars, uom_data, init_table, mode, uom_obj, base_uom, exc, stdout, snap, raced>>

\* line 69: uom_obj = UOM.objects.get(code=uom["code"]), and the test of line 70
ResolveBase_get(r) ==
    /\ pc[r] = "p2_get"
    /\ LET uom == uom_data[idx[r]]
           got == Get(table, ByCode(table, uom.code))
           nxt == IF got.status # "ok" THEN Uncaught(idx[r])
                  ELSE IF DeclaredBase(uom) # None THEN [pc |-> "p2_base", idx |-> idx[r]]
                  ELSE NextInPassTwo(idx[r])
       IN /\ uom_obj' = [uom_obj EXCEPT ![r] = IF got.status = "ok" THEN got.obj ELSE @]
          /\ exc' = [exc EXCEPT ![r] = IF got.status = "ok" THEN @ ELSE got.status]
          /\ pc' = [pc EXCEPT ![r] = nxt.pc]
          /\ idx' = [idx EXCEPT ![r] = nxt.idx]
    /\ UNCHANGED <<menuvars, extravars, uom_data, table, init_table, mode, base_uom, stdout, snap, raced>>

\* line 71: base_uom = UOM.objects.get(code=uom["base_uom"])
ResolveBase_base(r) ==
    /\ pc[r] = "p2_base"
    /\ LET uom == uom_data[idx[r]]
           got == Get(table, ByCode(table, DeclaredBase(uom)))
           nxt == IF got.status = "ok" THEN [pc |-> "p2_save", idx |-> idx[r]]
                  ELSE Uncaught(idx[r])
       IN /\ base_uom' = [base_uom EXCEPT ![r] = IF got.status = "ok" THEN got.obj ELSE @]
          /\ exc' = [exc EXCEPT ![r] = IF nxt.pc = "aborted" THEN got.status ELSE @]
          /\ pc' = [pc EXCEPT ![r] = nxt.pc]
          /\ idx' = [idx EXCEPT ![r] = nxt.idx]
    /\ UNCHANGED <<menuvars, extravars, uom_data, table, init_table, mode, uom_obj, stdout, snap, raced>>

\* lines 72-73: uom_obj.base_uom = base_uom; uom_obj.save()
ResolveBase_save(r) ==
    /\ pc[r] = "p2_save"
    /\ LET obj == SetBase(uom_obj[r], base_uom[r])
       IN /\ uom_obj' = [uom_obj EXCEPT ![r] = obj]
          /\ table' = Save(table, obj)
    /\ pc' = [pc EXCEPT ![r] = NextInPassTwo(idx[r]).pc]
    /\ idx' = [idx EXCEPT ![r] = NextInPassTwo(idx[r]).idx]
    /\ UNCHANGED <<menuvars, extravars, uom_data, init_table, mode, base_uom, exc, stdout, snap, raced>>

\* line 74: the success message
WriteSuccess(r) ==
    /\ pc[r] = "write"
    /\ stdout' = [stdout EXCEPT ![r] = Append(@, "Successfully created UOM objects.")]
    /\ snap' = [snap EXCEPT ![r] = table]
    /\ pc' = [pc EXCEPT ![r] = "done"]
    /\ UNCHANGED <<menuvars, extravars, uom_data, table, init_table, mode, idx, uom_obj, base_uom, exc, raced>>

NextSeed ==
    \E r \in Runs :
        \/ Start(r)
        \/ UpdateOrCreate_get(r)
        \/ UpdateOrCreate_create(r)
        \/ UpdateOrCreate_retry(r)
        \/ UpdateOrCreate_save(r)
        \/ ResolveBase_get(r)
        \/ ResolveBase_base(r)
        \/ ResolveBase_save(r)
        \/ WriteSuccess(r)

\* the command is run, and run again once the first run has ended
InitSeed ==
    /\ mode = "seq"
    /\ uom_data \in SeedLists
    /\ init_table \in InitTables
    /\ InitRuns

SpecSeed == InitSeed /\ [][NextSeed]_vars

\* two runs of the command whose database operations interleave
InitConc ==
    /\ mode = "conc"
    /\ uom_data \in SeedLists
    /\ init_table \in {<<>>, <<Row("UOM_WORD", "Chu", 0)>>}
    /\ InitRuns

SpecConc == InitConc /\ [][NextSeed]_vars

(***************************************************************************)
(* Properties of the seed command                                          *)
(***************************************************************************)
PassOnePcs == {"idle", "p1_get", "p1_create", "p1_retry", "p1_save"}

Codes(seq) == {seq[i].code : i \in DOMAIN seq}

\* the base_uom a code had before any run: NULL if it had no row
InitialBase(code) ==
    IF ByCode(init_table, code) = {} THEN 0
    ELSE init_table[CHOOSE i \in ByCode(init_table, code) : TRUE].base_uom

\* the row of a code, where there is exactly one
RowOf(code) == table[CHOOSE i \in ByCode(table, code) : TRUE]

\* C3: running the command twice in sequence is idempotent: whenever the
\* first run succeeds, the second run succeeds too and leaves the records
\* (their number, codes, names and base units) as the first run left them.
C3_SecondRunIdempotent ==
    (mode = "seq" /\ pc[1] = "done") =>
        /\ pc[2] # "aborted"
        /\ pc[2] = "done" => table = snap[1]

\* both runs completed on a table that already held rows, one of them with
\* a base unit that the first run had to correct
C3_Witness ==
    /\ mode = "seq" /\ pc[1] = "done" /\ pc[2] = "done"
    /\ Len(init_table) = 3 /\ Len(table) = 4
    /\ \E i \in DOMAIN init_table : init_table[i].base_uom # table[i].base_uom

\* C4: pass one creates or updates each record by its code: once a run is
\* past pass one, every seed code has exactly one record and that record
\* carries the seed entry's name, also when a record with that code and
\* another name existed before.
C4_UpsertByCode ==
    \A r \in Runs :
        (mode = "seq" /\ pc[r] \notin PassOnePcs) =>
            \A i \in DOMAIN uom_data :
                /\ Cardinality(ByCode(table, uom_data[i].code)) = 1
                /\ RowOf(uom_data[i].code).name = uom_data[i].name

\* C5: in every declaration order, once the command has completed, every
\* record whose entry declares a base_uom present in the list refers to the
\* record of that code, and a record whose entry declares none has the base
\* unit it had before.
C5_BaseResolvedAnyOrder ==
    \A r \in Runs :
        (mode = "seq" /\ pc[r] = "done") =>
            \A i \in DOMAIN uom_data :
                LET uom == uom_data[i]
                IN /\ Cardinality(ByCode(table, uom.code)) = 1
                   /\ ("base_uom" \in DOMAIN uom /\ uom.base_uom \in Codes(uom_data))
                         => /\ Cardinality(ByCode(table, uom.base_uom)) = 1
                            /\ RowOf(uom.code).base_uom \in ByCode(table, uom.base_uom)
                   /\ "base_uom" \notin DOMAIN uom
                         => RowOf(uom.code).base_uom = InitialBase(uom.code)

\* the command completed on a list whose first entry refers to a base unit
\* declared later, which had no row before the run
C5_Witness ==
    /\ mode = "seq" /\ pc[1] = "done" /\ pc[2] = "idle"
    /\ uom_data[1] = UOM_POST_LOWER_300
    /\ ByCode(init_table, "UOM_WORD") = {}
    /\ table[RowOf("UOM_POST_LOWER_300").base_uom].code = "UOM_WORD"

\* C9: when an entry declares a base_uom code that has no record, the
\* lookup of pass two fails, the run ends there, no later entry's base unit
\* is resolved and the success message is not written.
C9_MissingBaseAborts ==
    \A r \in Runs :
        mode = "seq" =>
            /\ (pc[r] = "aborted" /\ exc[r] = "DoesNotExist") =>
                  /\ stdout[r] = <<>>
                  /\ \A j \in DOMAIN uom_data :
                        (j > idx[r] /\ "base_uom" \in DOMAIN uom_data[j])
                           => RowOf(uom_data[j].code).base_uom = InitialBase(uom_data[j].code)
            /\ (\E i \in DOMAIN uom_data :
                   "base_uom" \in DOMAIN uom_data[i] /\ ByCode(table, uom_data[i].base_uom) = {})
                  => (pc[r] \notin {"write", "done"} /\ stdout[r] = <<>>)

\* the run ended at an entry whose base code has no record, and a later
\* entry whose base unit does exist was left unresolved
C9_Witness ==
    /\ mode = "seq" /\ pc[1] = "aborted" /\ exc[1] = "DoesNotExist"
    /\ uom_data[idx[1]] = UOM_SCRIPT_60
    /\ ByCode(table, "UOM_SECOND") = {}
    /\ \E j \in DOMAIN uom_data :
          /\ j > idx[1] /\ uom_data[j] = UOM_POST_LOWER_300
          /\ ByCode(table, "UOM_WORD") # {}
          /\ RowOf("UOM_POST_LOWER_300").base_uom = 0

MaxOwnOps == 4

\* the value None of a children attribute: no list object
NoList == 0

\* the class attribute MenuItem.children
ClassChildren == NoList

\* `self.children if self.children is not None else []`: an empty list
\* passed by the caller is kept
KeepUnlessNone(H, cur) ==
    IF cur = NoList THEN Len(H.lists) + 1 ELSE cur

\* `self.children or []`: the list bound to self.children; a None or an
\* empty list is replaced by a new list object
OrNewList(H, cur) ==
    IF cur = NoList \/ H.lists[cur] = <<>> THEN Len(H.lists) + 1 ELSE cur

\* MenuItem.__init__, AppList.__init__, ModelList.__init__ called with
\* children=kw (NoList: no children argument, or children=None)
MenuItem_init(H, cls, kw) ==
    LET cur == IF kw # NoList THEN kw ELSE ClassChildren
        l == OrNewList(H, cur)
        base == [cls |-> cls, title |-> "Untitled menu item", url |-> "#",
                 fas_icon |-> "None", children |-> l]
        rec == IF cls = "MenuItem" THEN base
               ELSE [cls |-> cls, title |-> "Untitled menu item", url |-> "#",
                     fas_icon |-> "None", children |-> l, models |-> <<>>, exclude |-> <<>>]
    IN [items |-> Append(H.items, rec),
        lists |-> IF l > Len(H.lists) THEN Append(H.lists, <<>>) ELSE H.lists]

InitOwn ==
    /\ items = <<>> /\ lists = <<>>
    /\ perms = [m \in Models |-> [add |-> FALSE, change |-> TRUE]]
    /\ last_items = <<>> /\ prior_len = 0 /\ hist = <<>> /\ ret = NoRet
    /\ SeedIdle /\ ExtraIdle

\* an item is constructed, with or without a children argument; the
\* argument is a list object some item already refers to
Construct ==
    /\ Len(hist) < MaxOwnOps
    /\ \E cls \in {"MenuItem", "AppList", "ModelList"}, kw \in {NoList} \cup DOMAIN lists :
          LET H == MenuItem_init(Heap, cls, kw)
              nonempty == kw # NoList /\ lists[kw] # <<>>
          IN /\ items' = H.items /\ lists' = H.lists
             /\ given' = IF nonempty THEN given \cup {Len(H.items)} ELSE given
             /\ hist' = Append(hist, IF kw = NoList THEN "new"
                                     ELSE IF nonempty THEN "new_shared_arg"
                                     ELSE "new_empty_arg")
             /\ ret' = [op |-> "new", item |-> Len(H.items)]
    /\ UNCHANGED <<perms, last_items, prior_len, seedvars, adminvars>>

\* parent.children.append(child)
AppendTo ==
    /\ Len(hist) < MaxOwnOps
    /\ \E parent, child \in DOMAIN items :
          /\ parent # child
          /\ LET H == append(Heap, parent, child)
             IN items' = H.items /\ lists' = H.lists
          /\ ret' = [op |-> "append", item |-> parent]
    /\ hist' = Append(hist, "append")
    /\ UNCHANGED <<perms, last_items, prior_len, given, seedvars, adminvars>>

\* init_with_context of any AppList or ModelList constructed so far
Item_init_with_context ==
    /\ Len(hist) < MaxOwnOps
    /\ \E self \in DOMAIN items :
          /\ items[self].cls \in {"AppList", "ModelList"}
          /\ \E its \in _visible_models(items[self], perms) :
                LET H == IF items[self].cls = "AppList" THEN AppList_build(Heap, self, its)
                         ELSE ModelList_build(Heap, self, its)
                IN /\ items' = H.items /\ lists' = H.lists
                   /\ last_items' = its
          /\ prior_len' = Len(ChildrenOf(Heap, self))
          /\ ret' = [op |-> "init", item |-> self]
    /\ hist' = Append(hist, "init")
    /\ UNCHANGED <<perms, given, seedvars, adminvars>>

NextOwn == Construct \/ AppendTo \/ Item_init_with_context

SpecOwn == InitOwn /\ [][NextOwn]_vars

\* what one step does to the children lists when no item was constructed
\* with a non-empty children argument
OwnListsStep ==
    given' = {} =>
        /\ \A i \in DOMAIN items' : items'[i].children # ClassChildren
        /\ \A i, j \in DOMAIN items' : i # j => items'[i].children # items'[j].children
        /\ \A i \in DOMAIN items :
              i # ret'.item => lists'[items'[i].children] = lists[items[i].children]

\* C11: every item constructed without a non-empty children argument has a
\* children list of its own, which is not the class-level default: after
\* any constructions, appends and init_with_context calls, a step that
\* appends to one item leaves the children list of every other item as it was.
C11_OwnChildrenList == [][OwnListsStep]_vars

\* a child was appended to one item while another item, constructed with an
\* empty list some item already held as its children argument, stays empty
C11_Witness ==
    /\ given = {} /\ ret.op = "append"
    /\ \E k \in DOMAIN hist : hist[k] = "new_empty_arg"
    /\ \E j \in DOMAIN items : j # ret.item /\ ChildrenOf(Heap, j) = <<>>
    /\ ChildrenOf(Heap, ret.item) # <<>>

(***************************************************************************)
(* PayrollAdmin.get_fieldsets (one/masterdata/payroll/admin.py)            *)
(***************************************************************************)
\* number of get_fieldsets calls on one admin
MaxCalls == 3

\* the fields line 12 adds to the first fieldset
PayrollFields ==
    <<"content_type", "object_id", "is_active", "effective_date", "expiry_date", "allowance">>

\* the field lists the parent admin may show in its first fieldset
ParentFieldChoices ==
    UNION {Orderings(S) : S \in SUBSET {"code", "name", "description"}}

\* the fieldsets the parent admin may have: one fieldset, or a second one after it
ParentFieldsets(fields) ==
    { <<[name |-> None, fields |-> fields]>>,
      <<[name |-> None, fields |-> fields], [name |-> "Audit", fields |-> <<"created", "modified">>]>> }

\* super().get_fieldsets(request, obj): the parent either builds the
\* structure anew on every call or returns the structure it keeps, in which
\* case the caller holds the kept object itself
super_get_fieldsets ==
    IF parent_kind = "stored"
    THEN [value |-> declared, is_kept_object |-> TRUE]
    ELSE [value |-> CHOOSE fs \in ParentFieldsets(parent_fields) : Len(fs) = Len(declared),
          is_kept_object |-> FALSE]

\* fieldsets[0][1]["fields"] += (...): the dict of the first fieldset is updated in place
AddPayrollFields(fieldsets) ==
    [fieldsets EXCEPT ![1].fields = @ \o PayrollFields]

InitAdmin ==
    /\ MenuIdle /\ SeedIdle /\ given = {}
    /\ parent_kind \in {"fresh", "stored"}
    /\ parent_fields \in ParentFieldChoices
    /\ declared \in ParentFieldsets(parent_fields)
    /\ returned = None
    /\ ncalls = 0

\* PayrollAdmin.get_fieldsets(request, obj)
get_fieldsets ==
    /\ ncalls < MaxCalls
    /\ LET got == super_get_fieldsets
           fieldsets == AddPayrollFields(got.value)
       IN /\ returned' = fieldsets
          /\ declared' = IF got.is_kept_object THEN fieldsets ELSE declared
    /\ ncalls' = ncalls + 1
    /\ UNCHANGED <<menuvars, seedvars, given, parent_kind, parent_fields>>

NextAdmin == get_fieldsets

SpecAdmin == InitAdmin /\ [][NextAdmin]_vars

\* C12: after any number of get_fieldsets calls on the same admin, whether
\* the parent builds its fieldsets anew or returns the structure it keeps,
\* the first fieldset of the result holds the parent's fields followed by
\* content_type, object_id, is_active, effective_date, expiry_date and
\* allowance, each exactly once.
C12_FieldsetsIdempotent ==
    ncalls > 0 => returned[1].fields = parent_fields \o PayrollFields

====
